---- MODULE Spec2Model ----
(***************************************************************************)
(* MCP tool integration layer: the remote tool client (DatabricksMCPClient) *)
(* with its time-boxed discovery cache, and the tool catalog               *)
(* (McpToolProvider) with its initialize / refresh lifecycle and fallback  *)
(* tools.                                                                  *)
(*                                                                         *)
(* Execution model: Node's event loop.  An async call runs synchronously   *)
(* up to its next await.  A step of the model is one such synchronous      *)
(* segment.  A call waiting for the network (pc = "fetch") resumes when    *)
(* its response is delivered; a call awaiting an already settled promise   *)
(* (pc = "hit" / "skip", a cache hit) resumes from the microtask queue,    *)
(* which drains before the next network response or timer is processed.   *)
(* Strings are sequences of one-character strings.                         *)
(***************************************************************************)
EXTENDS Naturals, Sequences, FiniteSets

\* ------------------------------------------------------------------ bounds

\* Number of calls (initialize, refresh, listTools) started in one behaviour.
MaxCalls == 2
\* Number of clock advances in one behaviour.
MaxTicks == 1

\* --------------------------------------------------------------- constants

CACHE_DURATION == 5 * 60 * 1000

\* The clock is observed at multiples of the cache lifetime.
TickMs == CACHE_DURATION

YOU_MCP == <<"y", "o", "u", "_", "m", "c", "p">>
YOU == <<"y", "o", "u">>
WEB_SEARCH == <<"w", "e", "b", "_", "s", "e", "a", "r", "c", "h">>
WEB_FETCH == <<"w", "e", "b", "_", "f", "e", "t", "c", "h">>
TOOL_X == <<"x">>
TOOL_MCP_X == <<"m", "c", "p", "-", "x">>

\* Connection names the configuration and the callers use.
SourceNames == {YOU_MCP, YOU}

Tasks == {"A", "B"}

\* The characters of [a-zA-Z0-9_].
IdentChars ==
  {"a", "b", "c", "d", "e", "f", "g", "h", "i", "j", "k", "l", "m",
   "n", "o", "p", "q", "r", "s", "t", "u", "v", "w", "x", "y", "z",
   "A", "B", "C", "D", "E", "F", "G", "H", "I", "J", "K", "L", "M",
   "N", "O", "P", "Q", "R", "S", "T", "U", "V", "W", "X", "Y", "Z",
   "0", "1", "2", "3", "4", "5", "6", "7", "8", "9", "_"}

VARIABLES
  mcpEnabledEnv,    \* process.env.MCP_ENABLED !== 'false'
  connections,      \* DEFAULT_MCP_CONNECTIONS: sequence of [name, enabled]
  cachedTools,      \* DatabricksMCPClient.cachedTools: Map name -> tools
  toolCacheExpiry,  \* DatabricksMCPClient.toolCacheExpiry: Map name -> ms
  tools,            \* McpToolProvider.tools: Map in insertion order
  initialized,      \* McpToolProvider.initialized
  now,              \* Date.now()
  task,             \* the async calls in progress
  reqs,             \* per call: the sources it sent a tools/list request to
  got,              \* per call: what listTools returned to loadTools / caller
  solo,             \* per call: no other initialize/refresh ran since it began
  lastResp,         \* the call begun, or the response a direct listTools
                    \* call got, in the step just taken
  settled,          \* tools is as the last finished initialization left it
  ncalls,           \* calls started so far
  answers,          \* the sources whose registry gives one fixed answer to
                    \* every tools/list request, with that answer
  translation       \* the last call of jsonSchemaToZod: its argument and
                    \* result, and the last payload parsed with the result

vars == <<mcpEnabledEnv, connections, cachedTools, toolCacheExpiry, tools,
          initialized, now, task, reqs, got, solo, lastResp, settled, ncalls,
          answers, translation>>

config == <<mcpEnabledEnv, connections>>

\* ----------------------------------------------------------------- helpers

\* The tool lists a registry answers with.
ToolLists == {<<>>, <<TOOL_MCP_X, TOOL_X>>}

IdleTask ==
  [kind |-> "idle", phase |-> "none", pc |-> "idle", conns |-> <<>>,
   idx |-> 0, src |-> <<>>, held |-> <<>>, raised |-> FALSE,
   name |-> <<>>, args |-> <<>>]

\* No call began and no response reached a direct listTools call.
NoResp == [t |-> "none", op |-> "none", src |-> <<>>, kind |-> "none", ret |-> <<>>]

\* Call t began: op is what was called.
Began(t, op) == [NoResp EXCEPT !.t = t, !.op = op]

EmptyMap == [k \in {} |-> <<>>]

MapPut(m, k, v) == [x \in DOMAIN m \cup {k} |-> IF x = k THEN v ELSE m[x]]

\* ------------------------------------------------- configuration (config/)

\* getEnabledMcpConnections(): the configured connections that are enabled.
GetEnabledMcpConnections == SelectSeq(connections, LAMBDA c : c.enabled)

\* isMcpEnabled(): the environment switch is on and a connection is enabled.
IsMcpEnabled == mcpEnabledEnv /\ Len(GetEnabledMcpConnections) > 0

\* The configurations: connection lists without repeated names, you_mcp
\* first as in DEFAULT_MCP_CONNECTIONS.  The entry you_mcp is enabled
\* exactly when MCP_ENABLED is not 'false'.
Configs(env) ==
  {c \in UNION {[1..k -> [name : SourceNames, enabled : BOOLEAN]] : k \in 1..2} :
     /\ \A i, j \in 1..Len(c) : i # j => c[i].name # c[j].name
     /\ \A i \in 1..Len(c) : c[i].name = YOU_MCP => i = 1 /\ c[i].enabled = env}

\* ------------------------------------------------ DatabricksMCPClient

\* What a tools/list request can come back with.  transport: the credential
\* lookup or fetch rejects; status: a response that is not ok; unparsable:
\* response.json() rejects; null: the body is JSON null; other: a JSON body
\* with no truthy tools field that is not an array; tools: {tools: body};
\* array: the body is the bare array.
FailKinds == {"transport", "status", "unparsable", "null", "other"}

Outcomes ==
  {[kind |-> k, body |-> <<>>] : k \in FailKinds}
    \cup {[kind |-> k, body |-> b] : k \in {"tools", "array"}, b \in ToolLists}

\* Mutants of CacheHit: the comparison reversed; the expiry instant included.
CacheHitReversed(cT, cE, conn, time) ==
  /\ conn \in DOMAIN cT
  /\ conn \in DOMAIN cE
  /\ cE[conn] # 0
  /\ time > cE[conn]

CacheHitInclusive(cT, cE, conn, time) ==
  /\ conn \in DOMAIN cT
  /\ conn \in DOMAIN cE
  /\ cE[conn] # 0
  /\ time <= cE[conn]

\* The cache test of listTools: cached && expiry && Date.now() < expiry.
CacheHit(cT, cE, conn, time) ==
  /\ conn \in DOMAIN cT
  /\ conn \in DOMAIN cE
  /\ cE[conn] # 0
  /\ time < cE[conn]

\* cacheTools(): both maps written, the expiry from the clock.
CacheTools(cache, conn, list, time) ==
  [cT |-> MapPut(cache.cT, conn, list),
   cE |-> MapPut(cache.cE, conn, time + CACHE_DURATION)]

\* Mutant of ClearCache: the maps are left as they are.
ClearCacheKept == [cT |-> cachedTools, cE |-> toolCacheExpiry]

\* clearCache(): both maps emptied.
ClearCache == [cT |-> EmptyMap, cE |-> EmptyMap]

\* No argument given to a call.
Absent == <<"undefined">>

\* clearCache called with an argument: the method declares no parameter,
\* so that the argument is not looked at.
ClearCacheWith(arg) == ClearCache

\* The body of listTools's try block after the request was sent: what it
\* returns, whether it writes the cache, or that it throws.
ListToolsTry(o) ==
  CASE o.kind \in {"transport", "unparsable", "null"} ->
         [thrown |-> TRUE, ret |-> <<>>, cache |-> FALSE, ok |-> FALSE]
    [] o.kind = "status" ->
         [thrown |-> FALSE, ret |-> <<>>, cache |-> FALSE, ok |-> FALSE]
    [] o.kind = "other" ->
         [thrown |-> FALSE, ret |-> <<>>, cache |-> TRUE, ok |-> FALSE]
    [] o.kind \in {"tools", "array"} ->
         [thrown |-> FALSE, ret |-> o.body, cache |-> TRUE, ok |-> TRUE]

\* Mutant of ListToolsResponse: no catch block.
ListToolsResponseNoCatch(o) == ListToolsTry(o)

\* listTools on a response: the catch block turns a throw into [].
ListToolsResponse(o) ==
  LET r == ListToolsTry(o)
  IN IF r.thrown
       THEN [thrown |-> FALSE, ret |-> <<>>, cache |-> FALSE, ok |-> FALSE]
       ELSE r

\* listTools up to its first await: a cache hit returns the cached array,
\* a miss sends the request.
ListToolsCall(tk, conn, cache, time) ==
  IF CacheHit(cache.cT, cache.cE, conn, time)
    THEN [tk EXCEPT !.pc = "hit", !.src = conn, !.held = cache.cT[conn]]
    ELSE [tk EXCEPT !.pc = "fetch", !.src = conn, !.held = <<>>]

\* A JSON value as callTool sees it: its shape ("null", "empty" for the
\* empty string, "text" for a non-empty string, "object") and, for an
\* object, the shapes of its fields result and content ("undefined" if the
\* object has no such field).
Json(shape, result, content) == <<shape, result, content>>
Primitive(shape) == Json(shape, "undefined", "undefined")
ShapeOf(v) == v[1]
ResultOf(v) == v[2]
ContentOf(v) == v[3]

Undefined == Primitive("undefined")

PrimitiveShapes == {"null", "empty", "text"}
FieldShapes == {"undefined"} \cup PrimitiveShapes

JsonBodies ==
  {Primitive(sh) : sh \in PrimitiveShapes}
    \cup {Json("object", r, c) : r \in FieldShapes, c \in FieldShapes}

\* if (x): a non-empty string is truthy; null, undefined and "" are not.
Truthy(shape) == shape \in {"text", "object"}

\* What a tools/call request can come back with.  transport: the credential
\* lookup or fetch rejects; status: a response that is not ok; unparsable:
\* response.json() rejects; json: a parsed body.
CallOutcomes ==
  {[kind |-> k, body |-> Undefined] : k \in {"transport", "status", "unparsable"}}
    \cup {[kind |-> "json", body |-> b] : b \in JsonBodies}

\* The body of callTool's try block after the request was sent.  Reading a
\* property of null throws; of a string it yields undefined.
CallToolTry(o) ==
  CASE o.kind \in {"transport", "status", "unparsable"} ->
         [thrown |-> TRUE, value |-> Undefined]
    [] o.kind = "json" /\ ShapeOf(o.body) = "null" ->
         [thrown |-> TRUE, value |-> Undefined]
    [] o.kind = "json" /\ ShapeOf(o.body) # "null" ->
         IF ResultOf(o.body) # "undefined"
           THEN [thrown |-> FALSE, value |-> Primitive(ResultOf(o.body))]
         ELSE IF Truthy(ContentOf(o.body))
           THEN [thrown |-> FALSE, value |-> Primitive(ContentOf(o.body))]
         ELSE [thrown |-> FALSE, value |-> o.body]

\* Mutant of CallToolResponse: the catch block returns instead of throwing.
CallToolResponseSwallow(o) ==
  LET r == CallToolTry(o)
  IN IF r.thrown THEN [thrown |-> FALSE, value |-> Undefined] ELSE r

\* callTool on a response: the catch block logs and throws the error again.
CallToolResponse(o) == CallToolTry(o)

\* The values jsonSchemaToZod works on (a parsed JSON document, or
\* undefined), by type.  A number is one other than 0.
JsUndefined == [t |-> "undefined"]
JsNull == [t |-> "null"]
Str(s) == [t |-> "string", s |-> s]
Num(integer) == [t |-> "number", integer |-> integer]
Bool(b) == [t |-> "boolean", b |-> b]
Arr(items) == [t |-> "array", items |-> items]
Obj(fields) == [t |-> "object", fields |-> fields]

\* if (v): undefined, null, "" and false are falsy.
IsTruthy(v) ==
  CASE v.t \in {"undefined", "null"} -> FALSE
    [] v.t = "string" -> v.s # ""
    [] v.t = "boolean" -> v.b
    [] OTHER -> TRUE

\* v.k of a value that is not null or undefined.
Get(v, k) ==
  IF v.t = "object" /\ k \in DOMAIN v.fields THEN v.fields[k] ELSE JsUndefined

\* v === s for a string s.
IsStr(v, s) == v.t = "string" /\ v.s = s

\* The zod schemas: z.any(), z.string(), z.number(), z.number().int(),
\* z.boolean(), z.array(item), z.object(shape) (with passthrough() or
\* without) and inner.optional().  ZThrow stands for a call that threw.
ZAny == [z |-> "any"]
ZString == [z |-> "string"]
ZNumber == [z |-> "number"]
ZInt == [z |-> "int"]
ZBoolean == [z |-> "boolean"]
ZArray(item) == [z |-> "array", item |-> item]
ZObject(shape, passthrough) ==
  [z |-> "object", shape |-> shape, passthrough |-> passthrough]
ZOptional(inner) == [z |-> "optional", inner |-> inner]
ZThrow == [z |-> "throw"]

\* Mutant of Includes: no key is found.
IncludesNone(required, key) == FALSE

\* required.includes(key) on an array.
Includes(required, key) ==
  \E i \in 1..Len(required.items) : IsStr(required.items[i], key)

RECURSIVE JsonSchemaToZod(_)
RECURSIVE ConvertJsonSchemaProperty(_)

\* jsonSchemaToZod() on undefined, null or an object.  A truthy required
\* that is a boolean, a number or an object has no includes method:
\* calling it throws, once for the first property of the shape.
JsonSchemaToZod(jsonSchema) ==
  IF ~IsTruthy(jsonSchema) \/ DOMAIN jsonSchema.fields = {}
    THEN ZObject(EmptyMap, TRUE)
  ELSE IF /\ IsStr(Get(jsonSchema, "type"), "object")
          /\ IsTruthy(Get(jsonSchema, "properties"))
    THEN LET props == Get(jsonSchema, "properties")
             entries == IF props.t = "object" THEN props.fields ELSE EmptyMap
             shape == [k \in DOMAIN entries |->
                         ConvertJsonSchemaProperty(entries[k])]
             required == IF IsTruthy(Get(jsonSchema, "required"))
                           THEN Get(jsonSchema, "required") ELSE Arr(<<>>)
         IN IF \E k \in DOMAIN shape : shape[k].z = "throw" THEN ZThrow
            ELSE IF DOMAIN shape # {} /\ required.t \in {"boolean", "number", "object"}
              THEN ZThrow
            ELSE ZObject([k \in DOMAIN shape |->
                            IF Includes(required, k)
                              THEN shape[k] ELSE ZOptional(shape[k])],
                         FALSE)
  ELSE ZAny

\* convertJsonSchemaProperty()
ConvertJsonSchemaProperty(prop) ==
  IF ~IsTruthy(prop) THEN ZAny
  ELSE IF ~IsTruthy(Get(prop, "type")) THEN ZAny
  ELSE LET type == Get(prop, "type")
       IN CASE IsStr(type, "string") -> ZString
            [] IsStr(type, "number") -> ZNumber
            [] IsStr(type, "integer") -> ZInt
            [] IsStr(type, "boolean") -> ZBoolean
            [] IsStr(type, "array") ->
                 LET item == IF IsTruthy(Get(prop, "items"))
                               THEN ConvertJsonSchemaProperty(Get(prop, "items"))
                               ELSE ZAny
                 IN IF item.z = "throw" THEN ZThrow ELSE ZArray(item)
            [] IsStr(type, "object") -> JsonSchemaToZod(prop)
            [] OTHER -> ZAny

RECURSIVE Accepts(_, _)
\* schema.safeParse(v).success: z.object() takes an object, checks the keys
\* of its shape (a missing key reads as undefined) and lets the other keys
\* be; z.any() and optional() take undefined.
Accepts(schema, v) ==
  CASE schema.z = "any" -> TRUE
    [] schema.z = "string" -> v.t = "string"
    [] schema.z = "number" -> v.t = "number"
    [] schema.z = "int" -> v.t = "number" /\ v.integer
    [] schema.z = "boolean" -> v.t = "boolean"
    [] schema.z = "array" ->
         /\ v.t = "array"
         /\ \A i \in 1..Len(v.items) : Accepts(schema.item, v.items[i])
    [] schema.z = "object" ->
         /\ v.t = "object"
         /\ \A k \in DOMAIN schema.shape : Accepts(schema.shape[k], Get(v, k))
    [] schema.z = "optional" ->
         v.t = "undefined" \/ Accepts(schema.inner, v)

\* No call of the translator yet.
NoTranslation ==
  [phase |-> "none", descriptor |-> JsUndefined, schema |-> ZAny,
   payload |-> JsUndefined, accepted |-> FALSE]

\* A value that was thrown: an Error object with its message, or any other
\* value (a rejection with a string, say), which has no message.
ErrorObject(message) == [isError |-> TRUE, message |-> message]
OtherThrown == [isError |-> FALSE, message |-> "undefined"]
NoError == [isError |-> FALSE, message |-> "none"]

\* What callTool throws on an outcome.  status: the Error made at the throw
\* statement, whose message ends with response.statusText (empty over
\* HTTP/2); transport: what fetch or the credential lookup rejected with;
\* unparsable: the SyntaxError of response.json(); a null body: the
\* TypeError of reading data.result.
Thrown(o) ==
  CASE o.kind = "status" ->
         {ErrorObject("Tool call failed: "),
          ErrorObject("Tool call failed: Bad Gateway")}
    [] o.kind = "transport" ->
         {ErrorObject("fetch failed"), OtherThrown}
    [] o.kind = "unparsable" ->
         {ErrorObject("Unexpected end of JSON input")}
    [] o.kind = "json" /\ ShapeOf(o.body) = "null" ->
         {ErrorObject("Cannot read properties of null (reading 'result')")}
    [] OTHER -> {NoError}

\* Mutant of Sanitize: the other characters are dropped.
SanitizeDrop(str) == SelectSeq(str, LAMBDA ch : ch \in IdentChars)

\* String.replace(/[^a-zA-Z0-9_]/g, '_') on the UTF-16 units of a string.
Sanitize(str) ==
  [i \in 1..Len(str) |-> IF str[i] \in IdentChars THEN str[i] ELSE "_"]

\* The name convertToAiSdkTool gives a tool.
QualifiedName(conn, toolName) == Sanitize(conn \o <<"_">> \o toolName)

\* convertToAiSdkTool(): the catalog entry of a remote tool; execute calls
\* callTool(conn, tool) and lets its error propagate.
ConvertToAiSdkTool(toolName, conn) ==
  [name |-> QualifiedName(conn, toolName), conn |-> conn, tool |-> toolName,
   fallback |-> FALSE]

\* getAllTools([connection]) once listTools has answered: the converted
\* tools in order; a throw of listTools is caught and leaves the list empty.
GetAllTools(conn, r) ==
  IF r.thrown THEN <<>>
  ELSE [i \in 1..Len(r.ret) |-> ConvertToAiSdkTool(r.ret[i], conn)]

\* ---------------------------------------------------- McpToolProvider

\* Mutant of MapSet: the entry always goes last, as in an array.
MapSetAppend(m, e) == Append(m, e)

\* Mutant of MapSet: a new key goes first.
MapSetFirst(m, e) ==
  IF \E i \in 1..Len(m) : m[i].name = e.name
    THEN [i \in 1..Len(m) |-> IF m[i].name = e.name THEN e ELSE m[i]]
    ELSE <<e>> \o m

\* Map.set on the insertion-ordered tools map: an existing key keeps its
\* place and takes the new value, a new key goes last.
MapSet(m, e) ==
  IF \E i \in 1..Len(m) : m[i].name = e.name
    THEN [i \in 1..Len(m) |-> IF m[i].name = e.name THEN e ELSE m[i]]
    ELSE Append(m, e)

\* The mapping from names to tools that an insertion-ordered map holds.
Mapping(m) == {m[i] : i \in 1..Len(m)}

RECURSIVE MapSetAll(_, _)
MapSetAll(m, es) ==
  IF es = <<>> THEN m ELSE MapSetAll(MapSet(m, Head(es)), Tail(es))

\* addWebSearchTool() / addWebFetchTool(): execute calls callTool on you_mcp
\* and turns its error into a result.
AddWebSearchTool(m) ==
  MapSet(m, [name |-> WEB_SEARCH, conn |-> YOU_MCP, tool |-> WEB_SEARCH,
             fallback |-> TRUE])

AddWebFetchTool(m) ==
  MapSet(m, [name |-> WEB_FETCH, conn |-> YOU_MCP, tool |-> WEB_FETCH,
             fallback |-> TRUE])

\* error instanceof Error ? error.message : fallback
ErrorMessage(err, fallback) == IF err.isError THEN err.message ELSE fallback

\* new Date().toISOString(): the text of the instant the clock shows.
ToISOString(ms) == <<"ISO-8601", ms>>

\* Mutant of WebSearchExecute: the catch block throws the error again.
WebSearchExecuteRethrow(r, err, args, time) == r

\* execute of the web_search tool once callTool('you_mcp', 'web_search',
\* args) has answered r (err is what it threw, if it threw).
WebSearchExecute(r, err, args, time) ==
  IF r.thrown
    THEN [thrown |-> FALSE,
          value |-> [results |-> <<>>,
                     error |-> ErrorMessage(err, "Search failed")]]
    ELSE r

\* Mutant of WebFetchExecute: the catch block throws the error again.
WebFetchExecuteRethrow(r, err, args, time) == r

\* execute of the web_fetch tool once callTool('you_mcp', 'web_fetch',
\* args) has answered r.
WebFetchExecute(r, err, args, time) ==
  IF r.thrown
    THEN [thrown |-> FALSE,
          value |-> [content |-> "",
                     url |-> args.url,
                     fetchedAt |-> ToISOString(time),
                     error |-> ErrorMessage(err, "Fetch failed")]]
    ELSE r

\* execute of a tool made by convertToAiSdkTool: callTool's answer as it is.
RemoteExecute(r, err, args, time) == r

\* execute of catalog entry e on callTool's answer.
Execute(e, r, err, args, time) ==
  IF e.fallback /\ e.name = WEB_SEARCH THEN WebSearchExecute(r, err, args, time)
  ELSE IF e.fallback /\ e.name = WEB_FETCH THEN WebFetchExecute(r, err, args, time)
  ELSE RemoteExecute(r, err, args, time)

\* Mutant of AddDefaultTools: the fetch tool is forgotten.
AddDefaultToolsSearchOnly(m) == AddWebSearchTool(m)

\* addDefaultTools()
AddDefaultTools(m) == AddWebFetchTool(AddWebSearchTool(m))

\* Mutant of LoadToolsInsert: the defaults for any connection without tools.
LoadToolsInsertAnySource(m, conn, all) ==
  LET set == MapSetAll(m, all)
  IN IF Len(all) = 0 THEN AddDefaultTools(set) ELSE set

\* The body of loadTools's loop for one connection, after getAllTools has
\* returned: every tool is set, and you_mcp with no tool gets the defaults.
LoadToolsInsert(m, conn, all) ==
  LET set == MapSetAll(m, all)
  IN IF Len(all) = 0 /\ conn = YOU_MCP THEN AddDefaultTools(set) ELSE set

\* Mutant of InitializeDone: the flag is not set.
InitializeDoneUnset(st) == [st EXCEPT !.tk.pc = "done", !.fin = TRUE]

\* The end of initialize once loadTools has returned.
InitializeDone(st) ==
  [st EXCEPT !.tk.pc = "done", !.initialized = TRUE, !.fin = TRUE]

\* loadTools's loop from connection i on, up to the next await.
LoadToolsFrom(st, i, cache, time) ==
  IF i > Len(st.tk.conns) THEN InitializeDone(st)
  ELSE LET c == st.tk.conns[i]
           tk == [st.tk EXCEPT !.phase = "load", !.idx = i]
       IN IF c.enabled
            THEN [st EXCEPT !.tk = ListToolsCall(tk, c.name, cache, time)]
            ELSE [st EXCEPT !.tk = [tk EXCEPT !.pc = "skip", !.src = c.name,
                                               !.held = <<>>]]

\* loadTools from its start: the map is cleared first.
LoadTools(st, cache, time) ==
  LoadToolsFrom([st EXCEPT !.tools = <<>>], 1, cache, time)

RECURSIVE NextEnabled(_, _)
\* The first enabled connection at or after index i (Len + 1 if none).
NextEnabled(conns, i) ==
  IF i > Len(conns) \/ conns[i].enabled THEN i ELSE NextEnabled(conns, i + 1)

\* mcpClient.initialize's prefetch loop from connection i on, up to the
\* next await; when the loop is over initialize goes on to loadTools.
ClientInitializeFrom(st, i, cache, time) ==
  LET j == NextEnabled(st.tk.conns, i)
  IN IF j <= Len(st.tk.conns)
       THEN [st EXCEPT !.tk = ListToolsCall(
                [st.tk EXCEPT !.phase = "prefetch", !.idx = j],
                st.tk.conns[j].name, cache, time)]
       ELSE LoadTools(st, cache, time)

\* Mutant of Initialize: no test of isMcpEnabled().
InitializeIgnoresSwitch(st, cache, time) ==
  IF st.initialized THEN [st EXCEPT !.tk.pc = "done"]
  ELSE ClientInitializeFrom(
         [st EXCEPT !.tk.conns = GetEnabledMcpConnections], 1, cache, time)

\* Mutant of Initialize: no test of the initialized flag.
InitializeNoGuard(st, cache, time) ==
  IF ~IsMcpEnabled THEN InitializeDone(st)
  ELSE ClientInitializeFrom(
         [st EXCEPT !.tk.conns = GetEnabledMcpConnections], 1, cache, time)

\* Mutant of Initialize: every configured connection is handed on, marked
\* enabled.
InitializeAllConnections(st, cache, time) ==
  IF st.initialized THEN [st EXCEPT !.tk.pc = "done"]
  ELSE IF ~IsMcpEnabled THEN InitializeDone(st)
  ELSE ClientInitializeFrom(
         [st EXCEPT !.tk.conns =
            [i \in 1..Len(connections) |->
               [connections[i] EXCEPT !.enabled = TRUE]]], 1, cache, time)

\* initialize() up to its first await.
Initialize(st, cache, time) ==
  IF st.initialized THEN [st EXCEPT !.tk.pc = "done"]
  ELSE IF ~IsMcpEnabled THEN InitializeDone(st)
  ELSE ClientInitializeFrom(
         [st EXCEPT !.tk.conns = GetEnabledMcpConnections], 1, cache, time)

\* Mutant of Refresh: initialize is not run again.
RefreshNoInitialize(st, time) ==
  [st EXCEPT !.initialized = FALSE, !.tk.pc = "done"]

\* refresh() up to its first await (the cache is cleared by the caller of
\* this operator, see StartRefresh).
Refresh(st, time) ==
  Initialize([st EXCEPT !.initialized = FALSE], ClearCache, time)

\* Mutant of AfterListTools: a direct caller whose request failed is handed
\* the list the cache still holds for the source.
AfterListToolsStale(st, r, cache, time) ==
  [st EXCEPT !.tk.pc = "done",
             !.tk.held = IF ~r.ok /\ st.tk.src \in DOMAIN cache.cT
                           THEN cache.cT[st.tk.src] ELSE r.ret,
             !.tk.raised = r.thrown]

\* What the awaiting code does with listTools's answer r, up to the next
\* await: the direct caller gets it, the prefetch loop drops it (and
\* catches a throw), loadTools inserts the converted tools.
AfterListTools(st, r, cache, time) ==
  CASE st.tk.phase = "direct" ->
         [st EXCEPT !.tk.pc = "done", !.tk.held = r.ret,
                    !.tk.raised = r.thrown]
    [] st.tk.phase = "prefetch" ->
         ClientInitializeFrom(st, st.tk.idx + 1, cache, time)
    [] st.tk.phase = "load" ->
         LET conn == st.tk.conns[st.tk.idx].name
             all == GetAllTools(conn, r)
         IN LoadToolsFrom(
              [st EXCEPT !.tools = LoadToolsInsert(st.tools, conn, all)],
              st.tk.idx + 1, cache, time)

\* Mutant of GetTools: no test of the initialized flag.
GetToolsUnguarded == tools

\* The readers.
GetTools ==
  IF ~initialized THEN <<>> ELSE tools

GetTool(name) == {tools[i] : i \in {j \in 1..Len(tools) : tools[j].name = name}}

HasTool(name) == \E i \in 1..Len(tools) : tools[i].name = name

GetToolNames == [i \in 1..Len(tools) |-> tools[i].name]

\* The body GET /api/mcp/status answers with.
Status ==
  [enabled |-> IsMcpEnabled,
   connections |-> GetEnabledMcpConnections,
   tools |-> GetToolNames,
   toolCount |-> Len(GetToolNames)]

\* The body GET /api/mcp/tools answers with: one entry for each key of
\* getTools(), and their number.
ToolDetails ==
  [tools |-> [i \in 1..Len(GetTools) |-> GetTools[i].name],
   count |-> Len(GetTools)]

\* ------------------------------------------------------------ the machine

Lifecycle == {"init", "refresh"}

Cache == [cT |-> cachedTools, cE |-> toolCacheExpiry]

\* The state a segment of call t starts from.
Machine(tk) ==
  [tk |-> tk, tools |-> tools, initialized |-> initialized, fin |-> FALSE]

\* A call that is between its first step and its return.
ActiveLifecycle(t) == task[t].kind \in Lifecycle /\ task[t].pc # "done"

\* Slot t is free for a new call: it is unused or its call has returned.
\* Slot B is taken only while slot A is in use.
CanStart(t) ==
  /\ task[t].pc \in {"idle", "done"}
  /\ ncalls < MaxCalls
  /\ t = "B" => task["A"].pc \notin {"idle", "done"}

\* A settled promise waits in the microtask queue.
MicrotaskPending == \E t \in Tasks : task[t].pc \in {"hit", "skip"}

\* The variables after a segment of call t that ended in machine state st
\* with the cache as given; entry is what listTools returned in it (a
\* sequence of at most one record), starts says that the segment is the
\* first of its call and disturbs that it began an initialization.  When a
\* call begins, the calls that returned before it are forgotten.  (s and c
\* are st and cache, evaluated once.)
Commit(t, st, cache, entry, resp, starts, disturbs) ==
  \E s \in {st}, c \in {cache} :
    /\ task' = [u \in Tasks |->
                  IF u = t THEN s.tk
                  ELSE IF starts /\ task[u].pc = "done" THEN IdleTask
                  ELSE task[u]]
    /\ tools' = s.tools
    /\ initialized' = s.initialized
    /\ cachedTools' = c.cT
    /\ toolCacheExpiry' = c.cE
    /\ reqs' = [u \in Tasks |->
                  IF u = t
                    THEN (IF starts THEN <<>> ELSE reqs[t])
                           \o (IF s.tk.pc = "fetch" THEN <<s.tk.src>> ELSE <<>>)
                  ELSE IF starts /\ task[u].pc = "done" THEN <<>>
                  ELSE reqs[u]]
    /\ got' = [u \in Tasks |->
                 IF u = t THEN (IF starts THEN <<>> ELSE got[t]) \o entry
                 ELSE IF starts /\ task[u].pc = "done" THEN <<>>
                 ELSE got[u]]
    /\ solo' = [u \in Tasks |->
                  IF u = t
                    THEN IF starts THEN \A v \in Tasks \ {t} : ~ActiveLifecycle(v)
                         ELSE solo[t]
                  ELSE IF starts /\ task[u].pc = "done" THEN TRUE
                  ELSE IF task[u].kind \in Lifecycle THEN solo[u] /\ ~disturbs
                  ELSE solo[u]]
    /\ lastResp' = resp
    /\ settled' = IF s.fin THEN TRUE
                  ELSE IF s.tools # tools THEN FALSE ELSE settled
    /\ UNCHANGED <<now, config, answers, translation>>

InitProgram ==
  /\ mcpEnabledEnv \in BOOLEAN
  /\ connections \in Configs(mcpEnabledEnv)
  /\ cachedTools = EmptyMap
  /\ toolCacheExpiry = EmptyMap
  /\ tools = <<>>
  /\ initialized = FALSE
  /\ now = 0
  /\ task = [t \in Tasks |-> IdleTask]
  /\ reqs = [t \in Tasks |-> <<>>]
  /\ got = [t \in Tasks |-> <<>>]
  /\ solo = [t \in Tasks |-> TRUE]
  /\ lastResp = NoResp
  /\ settled = TRUE
  /\ ncalls = 0

\* The state after the modules are loaded; a registry may answer each
\* request differently.
Init == InitProgram /\ answers = EmptyMap /\ translation = NoTranslation

\* A caller invokes mcpToolProvider.initialize().
StartInitialize(t) ==
  /\ CanStart(t)
  /\ ncalls' = ncalls + 1
  /\ Commit(t, Initialize(Machine([IdleTask EXCEPT !.kind = "init"]), Cache, now),
            Cache, <<>>, Began(t, "initialize"), TRUE, ~initialized)

\* A caller invokes mcpToolProvider.refresh().
StartRefresh(t) ==
  /\ CanStart(t)
  /\ ncalls' = ncalls + 1
  /\ Commit(t, Refresh(Machine([IdleTask EXCEPT !.kind = "refresh"]), now),
            ClearCache, <<>>, Began(t, "refresh"), TRUE, TRUE)

\* A caller invokes mcpClient.listTools(conn).
StartListTools(t, conn) ==
  /\ CanStart(t)
  /\ ncalls' = ncalls + 1
  /\ Commit(t, [Machine(IdleTask) EXCEPT !.tk =
                  ListToolsCall([IdleTask EXCEPT !.kind = "list", !.phase = "direct"],
                                conn, Cache, now)],
            Cache, <<>>, [Began(t, "listTools") EXCEPT !.src = conn], TRUE, FALSE)

\* The response to call t's tools/list request arrives and the call runs on.
Deliver(t, o) ==
  /\ task[t].pc = "fetch"
  /\ ~MicrotaskPending
  /\ task[t].src \in DOMAIN answers => o = answers[task[t].src]
  /\ LET r == ListToolsResponse(o)
         cache == IF r.cache THEN CacheTools(Cache, task[t].src, r.ret, now)
                  ELSE Cache
         entry == IF task[t].phase \in {"load", "direct"}
                    THEN <<[ok |-> r.ok, ret |-> r.ret]>> ELSE <<>>
     IN Commit(t, AfterListTools(Machine(task[t]), r, cache, now), cache, entry,
               IF task[t].phase = "direct"
                 THEN [t |-> t, op |-> "response", src |-> task[t].src,
                       kind |-> o.kind, ret |-> r.ret]
                 ELSE NoResp,
               FALSE, FALSE)
  /\ UNCHANGED ncalls

\* Call t resumes after awaiting a cache hit (or a getAllTools that had
\* nothing to list).
Resume(t) ==
  /\ task[t].pc \in {"hit", "skip"}
  /\ LET r == [thrown |-> FALSE, ret |-> task[t].held, cache |-> FALSE, ok |-> TRUE]
         entry == IF task[t].phase \in {"load", "direct"}
                    THEN <<[ok |-> TRUE, ret |-> r.ret]>> ELSE <<>>
     IN Commit(t, AfterListTools(Machine(task[t]), r, Cache, now), Cache, entry,
               NoResp, FALSE, FALSE)
  /\ UNCHANGED ncalls

\* A caller invokes mcpClient.callTool(conn, toolName): the request is sent.
\* The call's record holds the tool asked for until the response comes.
StartCallTool(t, conn, toolName) ==
  /\ CanStart(t)
  /\ ncalls' = ncalls + 1
  /\ Commit(t, [Machine(IdleTask) EXCEPT !.tk =
                  [IdleTask EXCEPT !.kind = "call", !.phase = "direct",
                                   !.pc = "call", !.src = conn, !.held = toolName]],
            Cache, <<>>, [Began(t, "callTool") EXCEPT !.src = conn], TRUE, FALSE)

\* The response to call t's tools/call request arrives: callTool returns a
\* value (kept in the call's record) or throws.
DeliverCall(t, o) ==
  /\ task[t].pc = "call"
  /\ ~MicrotaskPending
  /\ LET r == CallToolResponse(o)
     IN Commit(t, [Machine(task[t]) EXCEPT !.tk.pc = "done",
                                           !.tk.held = r.value,
                                           !.tk.raised = r.thrown],
               Cache, <<>>,
               [t |-> t, op |-> "callResponse", src |-> task[t].src,
                kind |-> o.kind, ret |-> o.body],
               FALSE, FALSE)
  /\ UNCHANGED ncalls

\* The catalog entries a caller can hold: the fallback tools and the
\* translations of remote tools.
ExecTools ==
  Mapping(AddDefaultTools(<<>>))
    \cup {ConvertToAiSdkTool(TOOL_MCP_X, conn) : conn \in SourceNames}

URL_A == <<"h", "t", "t", "p", ":", "/", "/", "a">>
URL_B == <<"n", "o", "t", "-", "a", "-", "u", "r", "l">>

\* The arguments a tool is executed with.
ExecArgs == {[url |-> URL_A], [url |-> URL_B]}

\* The calling runtime invokes execute(args) of catalog entry e: the tool
\* sends its callTool request.
StartExecute(t, e, args) ==
  /\ CanStart(t)
  /\ ncalls' = ncalls + 1
  /\ Commit(t, [Machine(IdleTask) EXCEPT !.tk =
                  [IdleTask EXCEPT !.kind = "execute",
                                   !.phase = IF e.fallback THEN "fallback" ELSE "remote",
                                   !.pc = "exec", !.src = e.conn, !.held = e.tool,
                                   !.name = e.name, !.args = args]],
            Cache, <<>>, [Began(t, "execute") EXCEPT !.src = e.conn], TRUE, FALSE)

\* The response to the tools/call request of an executing tool arrives:
\* callTool returns or throws err, and execute returns a value or throws.
DeliverExecute(t, o, err) ==
  /\ task[t].pc = "exec"
  /\ ~MicrotaskPending
  /\ err \in Thrown(o)
  /\ LET e == [name |-> task[t].name, conn |-> task[t].src,
               tool |-> task[t].held, fallback |-> task[t].phase = "fallback"]
         r == Execute(e, CallToolResponse(o), err, task[t].args, now)
     IN Commit(t, [Machine(task[t]) EXCEPT !.tk.pc = "done",
                                           !.tk.held = r.value,
                                           !.tk.raised = r.thrown],
               Cache, <<>>,
               [t |-> t, op |-> "executeResponse", src |-> task[t].src,
                kind |-> o.kind, ret |-> o.body, err |-> err],
               FALSE, FALSE)
  /\ UNCHANGED ncalls

\* Time passes.
Tick ==
  /\ now < MaxTicks * TickMs
  /\ \E conn \in DOMAIN toolCacheExpiry : now < toolCacheExpiry[conn]
  /\ ~MicrotaskPending
  /\ now' = now + TickMs
  /\ lastResp' = NoResp
  /\ UNCHANGED <<cachedTools, toolCacheExpiry, tools, initialized, task, reqs,
                 got, solo, settled, ncalls, config, answers, translation>>

Next ==
  \/ \E t \in Tasks : StartInitialize(t)
  \/ \E t \in Tasks : StartRefresh(t)
  \/ \E t \in Tasks, conn \in SourceNames : StartListTools(t, conn)
  \/ \E t \in Tasks, o \in Outcomes : Deliver(t, o)
  \/ \E t \in Tasks : Resume(t)
  \/ Tick

Spec == Init /\ [][Next]_vars

\* The environment of the process changes: isMcpEnabled() reads
\* process.env.MCP_ENABLED at every call, while the enabled field of the
\* connections was computed once, when the configuration module was loaded.
SetMcpEnabled(v) ==
  /\ v # mcpEnabledEnv
  /\ ~MicrotaskPending
  /\ mcpEnabledEnv' = v
  /\ lastResp' = NoResp
  /\ UNCHANGED <<connections, cachedTools, toolCacheExpiry, tools, initialized,
                 now, task, reqs, got, solo, settled, ncalls, answers,
                 translation>>

NextEnv ==
  \/ Next
  \/ \E v \in BOOLEAN : SetMcpEnabled(v)

\* The program in an environment whose MCP_ENABLED may change while it runs.
SpecEnv == Init /\ [][NextEnv]_vars

\* The tool invocations of the client.
NextCall ==
  \/ \E t \in Tasks, conn \in SourceNames, toolName \in {TOOL_X, TOOL_MCP_X} :
       StartCallTool(t, conn, toolName)
  \/ \E t \in Tasks, o \in CallOutcomes : DeliverCall(t, o)

SpecCall == Init /\ [][NextCall]_vars

\* A caller invokes mcpClient.clearCache(), with or without the name of a
\* connection.
ClearCacheCall(arg) ==
  /\ ncalls < MaxCalls
  /\ ~MicrotaskPending
  /\ ncalls' = ncalls + 1
  /\ cachedTools' = ClearCacheWith(arg).cT
  /\ toolCacheExpiry' = ClearCacheWith(arg).cE
  /\ lastResp' = [NoResp EXCEPT !.op = "clearCache", !.src = arg]
  /\ UNCHANGED <<tools, initialized, now, task, reqs, got, solo, settled,
                 config, answers, translation>>

\* The client alone: discoveries and cache invalidations.
NextClient ==
  \/ \E t \in Tasks, conn \in SourceNames : StartListTools(t, conn)
  \/ \E t \in Tasks, o \in Outcomes : Deliver(t, o)
  \/ \E t \in Tasks : Resume(t)
  \/ Tick
  \/ \E arg \in SourceNames \cup {Absent} : ClearCacheCall(arg)

SpecClient == Init /\ [][NextClient]_vars

\* The property names of the descriptors and payloads.
Keys == {"q", "n"}

PrimitiveTypes == {"string", "number", "integer", "boolean"}

\* An object with the given fields; a field given as undefined is left out.
WithField(fields, k, v) == IF v.t = "undefined" THEN fields ELSE MapPut(fields, k, v)

TypeOnly(type) == Obj(MapPut(EmptyMap, "type", Str(type)))

\* The descriptor {type: "object", properties, required}.
ObjectDescriptor(properties, required) ==
  Obj(WithField(WithField(MapPut(EmptyMap, "type", Str("object")),
                          "properties", properties), "required", required))

\* The descriptors of one property: a primitive type, a type the translator
\* does not know, no type, arrays, and objects.
PropertyDescriptors ==
  {TypeOnly(type) : type \in PrimitiveTypes \cup {"date", "array", "object"}}
    \cup {Obj(EmptyMap),
          Obj(MapPut(MapPut(EmptyMap, "type", Str("array")),
                     "items", TypeOnly("string"))),
          ObjectDescriptor(Obj(MapPut(EmptyMap, "q", TypeOnly("string"))),
                           Arr(<<Str("q")>>)),
          ObjectDescriptor(Obj(MapPut(EmptyMap, "q", TypeOnly("string"))),
                           Bool(TRUE))}

\* The values of properties: none, {}, or descriptors for some keys.
PropertiesValues ==
  {JsUndefined, Obj(EmptyMap)}
    \cup UNION {{Obj(f) : f \in [K -> PropertyDescriptors]} :
                 K \in (SUBSET Keys) \ {{}}}

\* The values of required: none, lists of keys, and true (the way some
\* schema dialects mark a required property).
RequiredValues ==
  {JsUndefined, Arr(<<>>), Arr(<<Str("q")>>), Arr(<<Str("n")>>),
   Arr(<<Str("q"), Str("n")>>), Bool(TRUE)}

\* The descriptors a tool can come with (mcpTool.inputSchema is any record,
\* or missing).
Descriptors ==
  {JsUndefined, JsNull, Obj(EmptyMap), TypeOnly("string"), TypeOnly("array"),
   Obj(MapPut(EmptyMap, "description", Str("text")))}
    \cup {ObjectDescriptor(properties, required) :
            properties \in PropertiesValues, required \in RequiredValues}

\* The values of one property of a payload.
PropertyValues ==
  {JsUndefined, JsNull, Str("a"), Num(TRUE), Num(FALSE), Bool(FALSE),
   Arr(<<Str("a")>>), Arr(<<Num(TRUE)>>),
   Obj(EmptyMap), Obj(MapPut(EmptyMap, "q", Str("a")))}

\* The payloads a schema is asked to validate.
Payloads ==
  {JsUndefined, JsNull, Str("a"), Num(TRUE), Arr(<<>>)}
    \cup {Obj(WithField(WithField(EmptyMap, "q", vq), "n", vn)) :
            vq \in PropertyValues, vn \in PropertyValues}

\* jsonSchemaToZod(descriptor) is called.
TranslateCall ==
  /\ translation.phase = "input"
  /\ translation' = [translation EXCEPT
                       !.phase = "translated",
                       !.schema = JsonSchemaToZod(translation.descriptor)]
  /\ UNCHANGED <<mcpEnabledEnv, connections, cachedTools, toolCacheExpiry,
                 tools, initialized, now, task, reqs, got, solo, lastResp,
                 settled, ncalls, answers>>

\* The schema made is asked to validate a payload.
ParseCall(payload) ==
  /\ translation.phase = "translated"
  /\ translation.schema.z # "throw"
  /\ translation' = [translation EXCEPT
                       !.phase = "parsed",
                       !.payload = payload,
                       !.accepted = Accepts(translation.schema, payload)]
  /\ UNCHANGED <<mcpEnabledEnv, connections, cachedTools, toolCacheExpiry,
                 tools, initialized, now, task, reqs, got, solo, lastResp,
                 settled, ncalls, answers>>

\* The translator on each descriptor, in the default configuration.
InitTranslate ==
  /\ InitProgram
  /\ mcpEnabledEnv
  /\ Len(connections) = 1
  /\ answers = EmptyMap
  /\ translation \in {[NoTranslation EXCEPT !.phase = "input", !.descriptor = d] :
                          d \in Descriptors}

NextTranslate ==
  \/ TranslateCall
  \/ \E payload \in Payloads : ParseCall(payload)

SpecTranslate == InitTranslate /\ [][NextTranslate]_vars

\* What a request of a lifecycle call comes back with: a failure, a tool
\* list, or a body the client cannot read as one.
Returns ==
  {o \in Outcomes : \/ o.kind = "transport"
                    \/ o.kind \in {"tools", "array"} /\ o.body # <<>>}

\* The lifecycle of the catalog: initialize and refresh calls, the answers
\* to their requests, and the clock.
NextLifecycle ==
  \/ \E t \in Tasks : StartInitialize(t)
  \/ \E t \in Tasks : StartRefresh(t)
  \/ \E t \in Tasks, o \in Returns : Deliver(t, o)
  \/ \E t \in Tasks : Resume(t)
  \/ Tick

\* The request of call t returns.  The failure is named first: it is the
\* one return whose next state costs nothing to compute, and it decides
\* ENABLED for all of them, the guard of Deliver being the same for each.
Returned(t) ==
  \/ Deliver(t, [kind |-> "transport", body |-> <<>>])
  \/ \E o \in Returns : Deliver(t, o)

\* Every request returns, with success or failure, and the event loop runs
\* every continuation that is ready.
Fairness ==
  \A t \in Tasks :
    /\ WF_vars(Returned(t))
    /\ WF_vars(Resume(t))

SpecLive == Init /\ [][NextLifecycle]_vars /\ Fairness

\* The executions of catalog tools.
NextExec ==
  \/ \E t \in Tasks, e \in ExecTools, args \in ExecArgs : StartExecute(t, e, args)
  \/ \E t \in Tasks, o \in CallOutcomes :
       \E err \in Thrown(o) : DeliverExecute(t, o, err)

SpecExec == Init /\ [][NextExec]_vars

\* The program in front of registries that answer every tools/list request
\* for a source in the same way.
InitSame ==
  /\ InitProgram
  /\ answers \in [SourceNames -> Outcomes]
  /\ translation = NoTranslation

SpecSame == InitSame /\ [][Next]_vars

\* ------------------------------------------------------------- the claims

StartOps == {"initialize", "refresh", "listTools"}

\* After the step, the source has a cache entry and the clock is before its
\* expiry.
Unexpired(conn) ==
  /\ conn \in DOMAIN cachedTools'
  /\ conn \in DOMAIN toolCacheExpiry'
  /\ now' < toolCacheExpiry'[conn]

\* The step is one of call t that ends inside a listTools call of t.
ListCall(t) == task'[t] # task[t] /\ task'[t].pc \in {"hit", "fetch"}

\* The requests call t had sent before the step (none if it begins in it).
ReqsBefore(t) ==
  IF lastResp'.t = t /\ lastResp'.op \in StartOps THEN <<>> ELSE reqs[t]

\* Call t ends in this step.
Ends(t) ==
  /\ task'[t].pc = "done"
  /\ task[t].pc # "done" \/ (lastResp'.t = t /\ lastResp'.op \in StartOps)

\* A finished initialize or refresh that no other one overlapped and that
\* went through loadTools for every enabled connection.
LoadedAlone(t) ==
  /\ task[t].kind \in Lifecycle
  /\ task[t].pc = "done"
  /\ solo[t]
  /\ Len(task[t].conns) > 0
  /\ Len(got[t]) = Len(task[t].conns)

FallbackInstalled ==
  /\ \E i \in 1..Len(tools) : tools[i].name = WEB_SEARCH /\ tools[i].fallback
  /\ \E i \in 1..Len(tools) : tools[i].name = WEB_FETCH /\ tools[i].fallback

NoFallback == \A i \in 1..Len(tools) : ~tools[i].fallback

\* C1: a listTools call made while the source has a cache entry with
\* now < expiresAt takes the cached sequence and sends no request, and the
\* direct caller is handed exactly that sequence, without a request.
C1_CachedNoRequest ==
  [][\A t \in Tasks :
       /\ (ListCall(t) /\ Unexpired(task'[t].src))
            => /\ task'[t].pc = "hit"
               /\ task'[t].held = cachedTools'[task'[t].src]
               /\ reqs'[t] = ReqsBefore(t)
       /\ (task[t].pc = "hit" /\ task[t].phase = "direct" /\ task'[t] # task[t])
            => /\ task'[t].pc = "done"
               /\ task'[t].held = task[t].held
               /\ ~task'[t].raised
               /\ reqs'[t] = reqs[t]]_vars

\* A direct listTools call returned a non-empty list without any request.
C1_Witness ==
  \E t \in Tasks :
    /\ task[t].phase = "direct"
    /\ task[t].pc = "done"
    /\ reqs[t] = <<>>
    /\ task[t].held # <<>>

\* C2: a listTools call made while the source has no unexpired cache entry
\* sends exactly one request, and when the response is a failure (credential
\* or transport error, non-success status, unparsable body) the call ends
\* there, returns the empty sequence and does not raise.
C2_MissOneRequestFailEmpty ==
  [][\A t \in Tasks :
       /\ (ListCall(t) /\ ~Unexpired(task'[t].src))
            => /\ task'[t].pc = "fetch"
               /\ reqs'[t] = Append(ReqsBefore(t), task'[t].src)
       /\ (lastResp'.op = "response" /\ lastResp'.t = t
             /\ lastResp'.kind \in {"transport", "status", "unparsable", "null"})
            => /\ task'[t].pc = "done"
               /\ task'[t].held = <<>>
               /\ lastResp'.ret = <<>>
               /\ ~task'[t].raised
               /\ reqs'[t] = reqs[t]
               /\ Len(reqs'[t]) = 1]_vars

\* A direct listTools call ended on an unparsable body, after one request,
\* although the source had an (expired) cache entry.
C2_Witness ==
  /\ lastResp.op = "response"
  /\ lastResp.kind = "unparsable"
  /\ task[lastResp.t].pc = "done"
  /\ reqs[lastResp.t] = <<lastResp.src>>
  /\ lastResp.src \in DOMAIN cachedTools

\* C3: a listTools call that ends in a transport error, a non-success status
\* or a malformed response body leaves the cache entries of every source as
\* they were.
C3_FailureLeavesCache ==
  [][(lastResp'.op = "response" /\ lastResp'.kind \in FailKinds)
       => /\ cachedTools' = cachedTools
          /\ toolCacheExpiry' = toolCacheExpiry]_vars

\* C4: a cache entry written at time t expires at t + 5 minutes, and a
\* listTools call is served from the cache exactly when the source has an
\* entry and now < expiresAt; at now >= expiresAt it sends a request.
C4_TtlFiveMinutes ==
  [][/\ \A conn \in DOMAIN toolCacheExpiry' :
          (\/ conn \notin DOMAIN toolCacheExpiry
           \/ toolCacheExpiry'[conn] # toolCacheExpiry[conn]
           \/ cachedTools'[conn] # cachedTools[conn])
            => toolCacheExpiry'[conn] = now + 5 * 60 * 1000
     /\ \A t \in Tasks :
          ListCall(t) =>
            /\ task'[t].pc = "hit" <=> Unexpired(task'[t].src)
            /\ task'[t].pc = "fetch" <=> ~Unexpired(task'[t].src)]_vars

\* A listTools call began at the very instant its source's entry expired and
\* sent a request.
C4_Witness ==
  /\ lastResp.op = "listTools"
  /\ task[lastResp.t].pc = "fetch"
  /\ lastResp.src \in DOMAIN toolCacheExpiry
  /\ now = toolCacheExpiry[lastResp.src]

\* C5: an initialize call made while initialized is true (a first initialize
\* has completed and no refresh came since: only refresh resets the flag)
\* returns at once, sends no request and leaves the tools, the flag and the
\* cache as they were.
C5_SecondInitializeNoOp ==
  [][/\ (lastResp'.op = "initialize" /\ initialized)
          => /\ task'[lastResp'.t].pc = "done"
             /\ reqs'[lastResp'.t] = <<>>
             /\ tools' = tools
             /\ initialized' = initialized
             /\ cachedTools' = cachedTools
             /\ toolCacheExpiry' = toolCacheExpiry
     /\ (initialized /\ ~initialized') => lastResp'.op = "refresh"]_vars

\* An initialize call was just made on a catalog that a finished
\* initialization had filled.
C5_Witness ==
  /\ lastResp.op = "initialize"
  /\ task[lastResp.t].pc = "done"
  /\ reqs[lastResp.t] = <<>>
  /\ initialized
  /\ Len(tools) > 0

\* C6: whatever the discovery outcomes, an initialize (alone or inside a
\* refresh) that ends does so without raising and with initialized = true.
C6_InitializeNeverFails ==
  [][\A t \in Tasks :
       (Ends(t) /\ task'[t].kind \in Lifecycle)
         => initialized' /\ ~task'[t].raised]_vars

\* An initialize ended after every discovery of its two sources had failed,
\* leaving the fallback tools only.
C6_Witness ==
  \E t \in Tasks :
    /\ LoadedAlone(t)
    /\ Len(got[t]) = 2
    /\ \A i \in 1..2 : ~got[t][i].ok
    /\ initialized
    /\ Len(tools) = 2
    /\ FallbackInstalled

\* C7: after an initialize whose only enabled connection is you_mcp and
\* whose discovery returned the empty sequence, the tool names are exactly
\* web_search and web_fetch.
C7_FallbackNamesOnly ==
  \A t \in Tasks :
    (/\ LoadedAlone(t)
     /\ Len(task[t].conns) = 1
     /\ task[t].conns[1].name = YOU_MCP
     /\ got[t][1].ret = <<>>)
      => /\ Len(GetToolNames) = 2
         /\ {GetToolNames[i] : i \in 1..2} = {WEB_SEARCH, WEB_FETCH}

\* Such an initialize ended after a failed discovery.
C7_Witness ==
  \E t \in Tasks :
    /\ LoadedAlone(t)
    /\ Len(task[t].conns) = 1
    /\ task[t].conns[1].name = YOU_MCP
    /\ ~got[t][1].ok
    /\ Len(tools) = 2

C9_PerSourceIsolation ==
  \A t \in Tasks :
    LoadedAlone(t) =>
      \A i \in 1..Len(task[t].conns) :
        \A k \in 1..Len(got[t][i].ret) :
          \E j \in 1..Len(tools) :
            /\ tools[j].conn = task[t].conns[i].name
            /\ tools[j].tool = got[t][i].ret[k]
            /\ ~tools[j].fallback

\* C10: whenever initialized is true, the tools map is as a finished
\* initialization left it (here: at the points where a reader scheduled by
\* the event loop can run, no microtask pending).
C10_NoPartialCatalog ==
  (initialized /\ ~MicrotaskPending) => settled

\* C11: while a refresh is in progress the tools map, which getTool, hasTool
\* and getToolNames read, is replaced as a whole: a step of the refresh
\* after which a reader can run (the refresh waits for the network) leaves
\* the map as it was; the map changes only in the step that ends the refresh.
C11_RefreshReplacesWhole ==
  [][\A t \in Tasks :
       (/\ task'[t].kind = "refresh"
        /\ task'[t] # task[t]
        /\ solo'[t]
        /\ (tools' # tools \/ GetToolNames' # GetToolNames))
         => (task'[t].pc = "done" \/ MicrotaskPending')]_vars

\* Entry e of the catalog is the translation of a tool that a discovery of
\* call t returned.
FromDiscovery(t, e) ==
  \E i \in 1..Len(task[t].conns) :
    \E k \in 1..Len(got[t][i].ret) :
      e = ConvertToAiSdkTool(got[t][i].ret[k], task[t].conns[i].name)

\* Entry e is a fallback tool that call t installed.
FromFallback(t, e) ==
  /\ e.fallback
  /\ \E i \in 1..Len(task[t].conns) :
       task[t].conns[i].name = YOU_MCP /\ got[t][i].ret = <<>>

\* C12: after a refresh has ended, every tool of the catalog was inserted by
\* the initialization the refresh ran (it translates a tool one of its
\* discoveries returned, or is a fallback tool it installed); a refresh that
\* found no source enabled leaves the catalog empty.
C12_RefreshClearsHeldTools ==
  \A t \in Tasks :
    (task[t].kind = "refresh" /\ task[t].pc = "done" /\ solo[t])
      => /\ Len(got[t]) = Len(task[t].conns)
         /\ \A j \in 1..Len(tools) :
              FromDiscovery(t, tools[j]) \/ FromFallback(t, tools[j])

\* C13: a refresh empties the discovery cache, whatever its entries and
\* their expiry, and the listTools call that follows (the refresh's own, for
\* its first enabled source) sends a request.
C13_RefreshClearsCache ==
  [][lastResp'.op = "refresh"
       => /\ cachedTools' = EmptyMap
          /\ toolCacheExpiry' = EmptyMap
          /\ \A t \in Tasks :
               ListCall(t) => /\ task'[t].pc = "fetch"
                              /\ reqs'[t] = <<task'[t].src>>
          /\ IsMcpEnabled => ListCall(lastResp'.t)]_vars

\* A refresh has just begun on a catalog that an initialize filled from
\* you_mcp at the current instant (the cached list had its whole lifetime
\* left), and it requests the tools of you_mcp again.
C13_Witness ==
  /\ lastResp.op = "refresh"
  /\ now = 0
  /\ task[lastResp.t].pc = "fetch"
  /\ task[lastResp.t].src = YOU_MCP
  /\ reqs[lastResp.t] = <<YOU_MCP>>
  /\ \E j \in 1..Len(tools) : ~tools[j].fallback /\ tools[j].conn = YOU_MCP
  /\ cachedTools = EmptyMap

\* What one initialize alone leaves behind when the registry of each source
\* gives its fixed answer: the catalog loadTools builds from the enabled
\* connections in order, and the cached list of every source whose answer
\* listTools caches.
RECURSIVE SingleCatalogFrom(_, _, _)
SingleCatalogFrom(m, conns, i) ==
  IF i > Len(conns) THEN m
  ELSE LET conn == conns[i].name
           all == GetAllTools(conn, ListToolsResponse(answers[conn]))
       IN SingleCatalogFrom(LoadToolsInsert(m, conn, all), conns, i + 1)

SingleCatalog == SingleCatalogFrom(<<>>, GetEnabledMcpConnections, 1)

SingleCache ==
  LET names == {GetEnabledMcpConnections[i].name :
                  i \in 1..Len(GetEnabledMcpConnections)}
      cached == {conn \in names : ListToolsResponse(answers[conn]).cache}
  IN [conn \in cached |-> ListToolsResponse(answers[conn]).ret]

\* Call t is an initialize that has ended after it sent requests.
Fetched(t) ==
  /\ task[t].kind = "init"
  /\ task[t].pc = "done"
  /\ Len(reqs[t]) > 0

\* C14: with registries that give every request for a source the same
\* answer, an initialize that is the only call made so far leaves the
\* catalog SingleCatalog and the cached lists SingleCache, and two
\* initialize calls, the only calls made so far, that interleaved and both
\* sent their requests leave the same mapping of names to tools and the same
\* cached lists.
C14_ConcurrentDiscoveryConverges ==
  /\ (ncalls = 1 /\ Fetched("A"))
       => tools = SingleCatalog /\ cachedTools = SingleCache
  /\ (ncalls = 2 /\ Fetched("A") /\ Fetched("B"))
       => /\ Mapping(tools) = Mapping(SingleCatalog)
          /\ Len(tools) = Len(SingleCatalog)
          /\ cachedTools = SingleCache

\* Two interleaved initialize calls have ended; each sent a request for each
\* of the two sources, and the catalog holds remote tools.
C14_Witness ==
  /\ ncalls = 2
  /\ Fetched("A") /\ Fetched("B")
  /\ \A t \in Tasks : Len(reqs[t]) >= 2 /\ Len(task[t].conns) = 2
  /\ \E j \in 1..Len(tools) : ~tools[j].fallback
  /\ DOMAIN answers = SourceNames

\* C15: getTools returns the empty mapping in every state where initialized
\* is false, whatever the tools map holds, and exactly the held mapping in
\* every state where initialized is true.
C15_GetToolsGuarded ==
  /\ ~initialized => GetTools = <<>>
  /\ initialized => /\ Mapping(GetTools) = Mapping(tools)
                    /\ Len(GetTools) = Len(tools)

\* The flag is false while the map holds tools (a refresh is under way).
C15_Witness ==
  /\ ~initialized
  /\ tools # <<>>
  /\ \E t \in Tasks : task[t].kind = "refresh" /\ task[t].pc = "fetch"

\* The registry is switched off or no source is enabled.
Disabled ==
  \/ ~mcpEnabledEnv
  \/ \A i \in 1..Len(connections) : ~connections[i].enabled

\* What the readers must show of a disabled registry.
ShowsDisabled ==
  /\ GetTools = <<>>
  /\ Status.enabled = FALSE
  /\ Status.toolCount = 0

Discovered(t) ==
  UNION {{<<task[t].conns[i].name, got[t][i].ret[k]>> :
            k \in 1..Len(got[t][i].ret)} : i \in 1..Len(task[t].conns)}

\* C17: distinct (connection, tool) pairs get distinct qualified names, so
\* that after an initialize the catalog holds one remote tool for every pair
\* its discoveries returned: no insertion has overwritten another tool.
C17_QualifiedNamesUnique ==
  \A t \in Tasks :
    LoadedAlone(t) =>
      /\ \A p, q \in Discovered(t) :
           p # q => QualifiedName(p[1], p[2]) # QualifiedName(q[1], q[2])
      /\ Cardinality({j \in 1..Len(tools) : ~tools[j].fallback})
           = Cardinality(Discovered(t))

\* The string an entry's name is made from.
Unsanitized(e) == e.conn \o <<"_">> \o e.tool

\* C18: the name of every remote tool of the catalog is its connection's
\* name, "_" and the tool's name, with each character of [A-Za-z0-9_] kept
\* and every other character replaced by "_": it has the length of the
\* unsanitized string, only characters of [A-Za-z0-9_], and is the value of
\* the naming function on its two inputs.
C18_QualifiedNameShape ==
  \A j \in 1..Len(tools) :
    ~tools[j].fallback =>
      LET raw == Unsanitized(tools[j])
          name == tools[j].name
      IN /\ Len(name) = Len(raw)
         /\ \A i \in 1..Len(name) :
              /\ name[i] \in IdentChars
              /\ raw[i] \in IdentChars => name[i] = raw[i]
              /\ raw[i] \notin IdentChars => name[i] = "_"
         /\ name = QualifiedName(tools[j].conn, tools[j].tool)

\* The catalog holds the tool "mcp-x" of you_mcp under you_mcp_mcp_x.
C18_Witness ==
  \E j \in 1..Len(tools) :
    /\ tools[j].conn = YOU_MCP
    /\ tools[j].tool = TOOL_MCP_X
    /\ "-" \in {tools[j].tool[i] : i \in 1..Len(tools[j].tool)}
    /\ tools[j].name =
         <<"y", "o", "u", "_", "m", "c", "p", "_", "m", "c", "p", "_", "x">>

\* C19: a callTool whose request gets a non-success status or fails in
\* transport ends by throwing to its caller; it returns no value.
C19_InvokeFailurePropagates ==
  [][(lastResp'.op = "callResponse" /\ lastResp'.kind \in {"status", "transport"})
       => /\ task'[lastResp'.t].pc = "done"
          /\ task'[lastResp'.t].raised
          /\ task'[lastResp'.t].held = Undefined]_vars

\* A callTool has just thrown on a non-success status.
C19_Witness ==
  /\ lastResp.op = "callResponse"
  /\ lastResp.kind = "status"
  /\ task[lastResp.t].kind = "call"
  /\ task[lastResp.t].raised

\* C20: on a success response with a parsed body, callTool returns the
\* body's result field if the body has one, otherwise its content field if
\* the body has one, otherwise the body itself.
C20_InvokeResultPriority ==
  [][(lastResp'.op = "callResponse" /\ lastResp'.kind = "json")
       => LET body == lastResp'.ret
              expected == IF ResultOf(body) # "undefined"
                            THEN Primitive(ResultOf(body))
                          ELSE IF ContentOf(body) # "undefined"
                            THEN Primitive(ContentOf(body))
                          ELSE body
          IN /\ ~task'[lastResp'.t].raised
             /\ task'[lastResp'.t].held = expected]_vars

\* An execute of the fallback tool named name has, in the step, been
\* answered by a callTool that failed.
FallbackFailed(name) ==
  /\ lastResp'.op = "executeResponse"
  /\ task[lastResp'.t].phase = "fallback"
  /\ task[lastResp'.t].name = name
  /\ CallToolResponse([kind |-> lastResp'.kind, body |-> lastResp'.ret]).thrown

\* C21: an execute of the fallback web_fetch tool whose callTool fails does
\* not raise; it returns content = "", the url of its arguments, the
\* timestamp of the clock and an error message that is not empty (the
\* message of the Error thrown, or "Fetch failed").
C21_WebFetchFailureIsResult ==
  [][FallbackFailed(WEB_FETCH)
       => LET tk == task'[lastResp'.t]
          IN /\ tk.pc = "done"
             /\ ~tk.raised
             /\ DOMAIN tk.held = {"content", "url", "fetchedAt", "error"}
             /\ tk.held.content = ""
             /\ tk.held.url = task[lastResp'.t].args.url
             /\ tk.held.fetchedAt = ToISOString(now)
             /\ tk.held.error # ""
             /\ tk.held.error
                  = ErrorMessage(lastResp'.err, "Fetch failed")]_vars

\* An execute of web_fetch on the second url has just returned the failure
\* result of a non-success status without status text.
C21_Witness ==
  /\ lastResp.op = "executeResponse"
  /\ lastResp.kind = "status"
  /\ lastResp.err = ErrorObject("Tool call failed: ")
  /\ task[lastResp.t].name = WEB_FETCH
  /\ task[lastResp.t].phase = "fallback"
  /\ ~task[lastResp.t].raised
  /\ task[lastResp.t].held.url = URL_B
  /\ task[lastResp.t].held.content = ""

\* C22: an execute of the fallback web_search tool whose callTool fails
\* does not raise; it returns results = [] and the message of the error
\* ("Search failed" if what was thrown is not an Error).
C22_WebSearchFailureIsResult ==
  [][FallbackFailed(WEB_SEARCH)
       => LET tk == task'[lastResp'.t]
          IN /\ tk.pc = "done"
             /\ ~tk.raised
             /\ DOMAIN tk.held = {"results", "error"}
             /\ tk.held.results = <<>>
             /\ tk.held.error
                  = ErrorMessage(lastResp'.err, "Search failed")]_vars

\* An execute of web_search has just returned the failure result of a
\* rejection with a value that is not an Error.
C22_Witness ==
  /\ lastResp.op = "executeResponse"
  /\ lastResp.kind = "transport"
  /\ lastResp.err = OtherThrown
  /\ task[lastResp.t].name = WEB_SEARCH
  /\ task[lastResp.t].phase = "fallback"
  /\ ~task[lastResp.t].raised
  /\ task[lastResp.t].held.results = <<>>
  /\ task[lastResp.t].held.error = "Search failed"

\* Map m without its entry for key k.
Without(m, k) == [x \in DOMAIN m \ {k} |-> m[x]]

\* C23: invalidating one source removes the cache entry of that source and
\* leaves the entries of every other source as they were; invalidating
\* without an argument removes the entries of all sources.
C23_InvalidateOneOrAll ==
  [][lastResp'.op = "clearCache"
       => IF lastResp'.src = Absent
            THEN cachedTools' = EmptyMap /\ toolCacheExpiry' = EmptyMap
            ELSE /\ cachedTools' = Without(cachedTools, lastResp'.src)
                 /\ toolCacheExpiry' = Without(toolCacheExpiry, lastResp'.src)]_vars

\* In the step, a direct listTools call is answered by a failure while the
\* cache holds an expired entry for its source.
FailedOnExpired ==
  /\ lastResp'.op = "response"
  /\ lastResp'.kind \in FailKinds
  /\ lastResp'.src \in DOMAIN cachedTools
  /\ lastResp'.src \in DOMAIN toolCacheExpiry
  /\ now >= toolCacheExpiry[lastResp'.src]

\* C24 as stated: when the entry of a source has expired and the request
\* fails, listTools returns the empty sequence, and the source has no entry
\* in the cache afterwards.
C24_FailedFetchLeavesAbsent ==
  [][FailedOnExpired
       => /\ task'[lastResp'.t].held = <<>>
          /\ ~task'[lastResp'.t].raised
          /\ lastResp'.src \notin DOMAIN cachedTools']_vars

\* C24, amended: when the entry of a source has expired and the request
\* fails, listTools returns the empty sequence and does not raise; the
\* expired list is served to no one afterwards: the cache keeps the entry
\* with its passed expiry (a call at that time misses it), or, after a body
\* of the wrong shape, holds the empty list in its place.
C24_FailedFetchNeverServesStale ==
  [][FailedOnExpired
       => LET conn == lastResp'.src
          IN /\ task'[lastResp'.t].held = <<>>
             /\ ~task'[lastResp'.t].raised
             /\ conn \in DOMAIN cachedTools'
             /\ \/ /\ cachedTools'[conn] = cachedTools[conn]
                   /\ toolCacheExpiry'[conn] = toolCacheExpiry[conn]
                   /\ ~CacheHit(cachedTools', toolCacheExpiry', conn, now')
                \/ /\ lastResp'.kind = "other"
                   /\ cachedTools'[conn] = <<>>]_vars

\* A direct listTools call has just returned the empty sequence on a
\* non-success status while the cache holds an expired, non-empty list for
\* its source.
C24_Witness ==
  /\ lastResp.op = "response"
  /\ lastResp.kind = "status"
  /\ task[lastResp.t].pc = "done"
  /\ task[lastResp.t].held = <<>>
  /\ lastResp.src \in DOMAIN cachedTools
  /\ cachedTools[lastResp.src] # <<>>
  /\ now >= toolCacheExpiry[lastResp.src]

\* C25: a direct listTools call answered with success status by a body that
\* is neither an object with a tools field nor an array returns the empty
\* sequence and adds no cache entry: the source has an entry afterwards
\* only if it had that very entry before, and a listTools call made right
\* after the answer would not be served from the cache.
C25_MalformedBodyNotCached ==
  [][(lastResp'.op = "response" /\ lastResp'.kind \in {"other", "null"})
       => LET conn == lastResp'.src
          IN /\ task'[lastResp'.t].held = <<>>
             /\ ~task'[lastResp'.t].raised
             /\ conn \in DOMAIN cachedTools'
                  => /\ conn \in DOMAIN cachedTools
                     /\ cachedTools'[conn] = cachedTools[conn]
                     /\ toolCacheExpiry'[conn] = toolCacheExpiry[conn]
             /\ ~CacheHit(cachedTools', toolCacheExpiry', conn, now')]_vars

\* The names call t asked loadTools to insert for its connection i, in the
\* order of insertion: the qualified names of the tools the discovery
\* returned, in discovery order, or those of the fallback tools.
NamesOfSource(t, i) ==
  LET conn == task[t].conns[i].name
      ret == got[t][i].ret
  IN IF ret = <<>>
       THEN IF conn = YOU_MCP THEN <<WEB_SEARCH, WEB_FETCH>> ELSE <<>>
       ELSE [k \in 1..Len(ret) |-> QualifiedName(conn, ret[k])]

RECURSIVE NamesFrom(_, _)
\* The names of the connections i.. of call t, in configuration order.
NamesFrom(t, i) ==
  IF i > Len(task[t].conns) THEN <<>>
  ELSE NamesOfSource(t, i) \o NamesFrom(t, i + 1)

RECURSIVE FirstOccurrences(_, _)
\* The sequence without the repetitions of a name: each name at the place
\* of its first insertion.
FirstOccurrences(seen, names) ==
  IF names = <<>> THEN <<>>
  ELSE IF Head(names) \in seen THEN FirstOccurrences(seen, Tail(names))
  ELSE <<Head(names)>> \o FirstOccurrences(seen \cup {Head(names)}, Tail(names))

\* C26: getToolNames returns every name once, and after an initialize it
\* returns the names in insertion order: the connections in configuration
\* order, and within a connection the tools in discovery order, a name
\* standing where it was first inserted.
C26_NamesInInsertionOrder ==
  /\ \A i, j \in 1..Len(GetToolNames) :
       i # j => GetToolNames[i] # GetToolNames[j]
  /\ \A t \in Tasks :
       LoadedAlone(t) => GetToolNames = FirstOccurrences({}, NamesFrom(t, 1))

\* An initialize with two connections has ended: both discoveries returned
\* two tools, and one name was inserted twice.
C26_Witness ==
  \E t \in Tasks :
    /\ LoadedAlone(t)
    /\ Len(task[t].conns) = 2
    /\ Len(got[t][1].ret) = 2
    /\ Len(got[t][2].ret) = 2
    /\ Len(NamesFrom(t, 1)) = 4
    /\ Len(GetToolNames) = 3

\* The descriptor is {type: "object", properties, required} with a
\* primitive type declared for every property and a list for required.
PrimitiveObjectDescriptor(d) ==
  /\ d.t = "object"
  /\ IsStr(Get(d, "type"), "object")
  /\ Get(d, "properties").t = "object"
  /\ DOMAIN Get(d, "properties").fields # {}
  /\ \A k \in DOMAIN Get(d, "properties").fields :
       \E type \in PrimitiveTypes : Get(d, "properties").fields[k] = TypeOnly(type)
  /\ Get(d, "required").t = "array"

\* Value v is of the primitive type named.
HasType(v, type) ==
  CASE type = "string" -> v.t = "string"
    [] type = "number" -> v.t = "number"
    [] type = "integer" -> v.t = "number" /\ v.integer
    [] type = "boolean" -> v.t = "boolean"

\* What descriptor d asks of payload p: an object in which every listed
\* property is there with its type, and every other declared property is
\* not there or has its type.
Conforms(d, p) ==
  /\ p.t = "object"
  /\ \A k \in DOMAIN Get(d, "properties").fields :
       LET type == Get(d, "properties").fields[k].fields["type"].s
           listed == \E i \in 1..Len(Get(d, "required").items) :
                       Get(d, "required").items[i] = Str(k)
       IN IF listed THEN HasType(Get(p, k), type)
          ELSE Get(p, k).t = "undefined" \/ HasType(Get(p, k), type)

\* C27: for a descriptor of type object whose properties declare primitive
\* types and whose required is a list, the schema made accepts exactly the
\* payloads in which each listed property is there with its type and each
\* other declared property is absent or of its type; the schema of
\* {type: object, properties: {q: string}, required: [q]} rejects a payload
\* without q and accepts one whose q is a string.
C27_RequiredAndOptional ==
  PrimitiveObjectDescriptor(translation.descriptor) =>
    /\ translation.phase \in {"translated", "parsed"}
         => translation.schema.z = "object"
    /\ translation.phase = "parsed"
         => (translation.accepted
               <=> Conforms(translation.descriptor, translation.payload))
    /\ (/\ translation.phase = "parsed"
        /\ translation.descriptor
             = ObjectDescriptor(Obj(MapPut(EmptyMap, "q", TypeOnly("string"))),
                                Arr(<<Str("q")>>)))
         => (translation.accepted <=> Get(translation.payload, "q").t = "string")

\* The schema of {type: object, properties: {q: string, n: integer},
\* required: [q]} has accepted a payload with a string q and no n.
C27_Witness ==
  /\ translation.phase = "parsed"
  /\ translation.descriptor
       = ObjectDescriptor(
           Obj(MapPut(MapPut(EmptyMap, "q", TypeOnly("string")),
                      "n", TypeOnly("integer"))),
           Arr(<<Str("q")>>))
  /\ translation.payload = Obj(MapPut(EmptyMap, "q", Str("a")))
  /\ translation.accepted

\* C28: the translator does not throw; for an absent or empty descriptor
\* it makes the object schema that lets every property through, and for a
\* descriptor that is not of type object with properties it makes the
\* schema that accepts every value.
C28_TranslateNeverFails ==
  translation.phase \in {"translated", "parsed"} =>
    LET d == translation.descriptor
    IN /\ translation.schema.z # "throw"
       /\ (d.t \in {"undefined", "null"} \/ d = Obj(EmptyMap))
            => translation.schema = ZObject(EmptyMap, TRUE)
       /\ (/\ d.t = "object"
           /\ d # Obj(EmptyMap)
           /\ ~(IsStr(Get(d, "type"), "object")
                  /\ Get(d, "properties").t = "object"))
            => translation.schema = ZAny

\* C29: in every reachable state the catalog does not hold a fallback tool
\* together with a remote tool translated from you_mcp.
C29_FallbackExcludesPrimaryRemote ==
  ~ \E i, j \in 1..Len(tools) :
      /\ tools[i].fallback
      /\ ~tools[j].fallback
      /\ tools[j].conn = YOU_MCP

\* C30: an initialize call sends at most one tools/list request for each
\* connection, whether the discovery of the connection succeeds or fails.
C30_OneRequestPerSource ==
  \A t \in Tasks :
    task[t].kind = "init" =>
      \A i, j \in 1..Len(reqs[t]) : i # j => reqs[t][i] # reqs[t][j]

\* The names that are keys of getTools().
GetToolsKeys == {GetTools[i].name : i \in 1..Len(GetTools)}

\* C31: in every state in which a reader can run, also while an initialize
\* or a refresh is in progress, the readers agree: the keys of getTools are
\* the names getToolNames returns, hasTool(n) holds exactly for the keys of
\* getTools, and the toolCount of status is the count of the tool details.
C31_ReadersAgree ==
  ~MicrotaskPending =>
    /\ GetToolsKeys = {GetToolNames[i] : i \in 1..Len(GetToolNames)}
    /\ \A i \in 1..Len(tools) : HasTool(tools[i].name) <=> tools[i].name \in GetToolsKeys
    /\ \A n \in {WEB_SEARCH, WEB_FETCH, QualifiedName(YOU_MCP, TOOL_X)} :
         HasTool(n) <=> n \in GetToolsKeys
    /\ Status.toolCount = ToolDetails.count

\* The connection named conn is configured with enabled = true.
EnabledSource(conn) ==
  \E i \in 1..Len(connections) :
    connections[i].name = conn /\ connections[i].enabled

\* C32: an initialize or refresh sends its tools/list requests only to
\* connections whose enabled field is true and sends no tools/call request;
\* and an initialize (alone or inside a refresh) that finds the registry
\* disabled ends at once with initialized = true and without a request.
C32_NoRequestWhenDisabled ==
  [][/\ \A t \in Tasks :
          task'[t].kind \in Lifecycle =>
            /\ task'[t].pc \notin {"call", "exec"}
            /\ task'[t].pc = "fetch" => EnabledSource(task'[t].src)
            /\ \A i \in 1..Len(reqs'[t]) : EnabledSource(reqs'[t][i])
     /\ (lastResp'.op \in {"initialize", "refresh"} /\ ~IsMcpEnabled)
          => /\ task'[lastResp'.t].pc = "done"
             /\ reqs'[lastResp'.t] = <<>>
             /\ initialized']_vars

\* An initialize has ended on a configuration with you_mcp enabled and the
\* other connection disabled: it sent requests, to you_mcp only.
C32_Witness ==
  \E t \in Tasks :
    /\ LoadedAlone(t)
    /\ Len(connections) = 2
    /\ connections[1].enabled
    /\ ~connections[2].enabled
    /\ Len(reqs[t]) > 0
    /\ \A i \in 1..Len(reqs[t]) : reqs[t][i] = YOU_MCP

\* No initialize or refresh is in progress, and one has been made.
Quiescent ==
  /\ \E t \in Tasks : task[t].kind \in Lifecycle
  /\ \A t \in Tasks : ~ActiveLifecycle(t)

\* C33: when every request is answered, every initialize and every refresh
\* that is in progress ends, and whenever none is in progress (after one
\* was made) initialized is true.
C33_LifecycleCompletes ==
  /\ \A t \in Tasks : ActiveLifecycle(t) ~> (task[t].pc = "done")
  /\ [](Quiescent => initialized)

\* A refresh that overlapped an initialize has ended, as has the
\* initialize; both had sent requests.
C33_Witness ==
  /\ task["A"].kind = "init"
  /\ task["B"].kind = "refresh"
  /\ task["A"].pc = "done"
  /\ task["B"].pc = "done"
  /\ ~solo["A"]
  /\ Len(reqs["A"]) > 0
  /\ Len(reqs["B"]) > 0
  /\ initialized

====
